---- MODULE Spec2Model ----
(***************************************************************************)
(* Model of kronoterm-mqtt: the register registry built by init_device,    *)
(* the address coalescer (ranges), the poll/publish loop of publish_loop   *)
(* and the switch/select command callbacks, which run on the MQTT client's *)
(* network thread (loop_start) concurrently with the poll loop.            *)
(*                                                                         *)
(* Display values are kept as one-element tuples <<v>>; <<>> is a          *)
(* component whose state was never set.  A numeric sensor's display value  *)
(* is kept in tenths (scale10 * raw), the scale being a decimal with one   *)
(* fractional digit.                                                       *)
(***************************************************************************)
EXTENDS Integers, Sequences, FiniteSets, TLC

\* ------------------------------------------------------------------ bounds
\* Highest zero-based register address of a definition table.
MaxAddr == 2
\* Highest address of the address lists the coalescer is checked on alone.
MaxRangeAddr == 6

Addr == 0..MaxAddr
None == "None"
NotSet == <<>>

\* Unsigned 16-bit words a device register holds in the model: the two
\* option keys, and a word with the sign bit set, which is no option key.
Words == {0, 1, 65535}

Kinds == <<"sensor", "binary_sensor", "enum_sensor", "switch", "select">>

KindIndex(k) == CHOOSE i \in 1..Len(Kinds) : Kinds[i] = k

\* ------------------------------------------------------- definition table
\* One record of the definition table (definitions/<name>.toml), by kind.
\* register is one-based; options is the record's options list, which
\* holds one key/value table.
Definition(kind, register) ==
    CASE kind = "sensor" ->
           [kind |-> kind, register |-> register, scale10 |-> 5]
      [] kind = "binary_sensor" ->
           [kind |-> kind, register |-> register, bit |-> 1]
      [] kind = "enum_sensor" ->
           [kind |-> kind, register |-> register,
            options |-> <<[keys |-> <<0, 1>>, values |-> <<"x", "y">>]>>]
      [] kind = "switch" ->
           [kind |-> kind, register |-> register]
      [] kind = "select" ->
           [kind |-> kind, register |-> register,
            options |-> <<[keys |-> <<0, 1>>, values |-> <<"a", "b">>]>>]

\* The key/value table of a record: parameter["options"][0] of a select,
\* the one table "*parameter["options"]" puts into an enum sensor's tuple.
Options(d) == d.options[1]

AllDefinitions ==
    {Definition(Kinds[k], a + 1) : k \in 1..Len(Kinds), a \in Addr}

\* The definition tables: the records in the order init_device walks them
\* (all sensors, then binary sensors, enum sensors, switches, selects).
\* Two records may name the same register, within a kind or across kinds.
\* A table holds no record, one record or a pair of records.
TableSizes == {0, 1, 2}

Tables ==
    {t \in UNION {[1..n -> AllDefinitions] : n \in TableSizes} :
        \A i \in 1..Len(t) : \A j \in 1..Len(t) :
            i < j => KindIndex(t[i].kind) <= KindIndex(t[j].kind)}

\* ------------------------------------------------------------------ state
VARIABLES
    table,           \* the loaded definition table; a component is its index
    dev,             \* the heat pump's holding registers (unsigned words)
    main_device,     \* self.main_device: None or "MqttDevice"
    sensors,         \* self.sensors: address -> component
    binary_sensors,  \* self.binary_sensors
    enum_sensors,    \* self.enum_sensors
    switches,        \* self.switches
    selects,         \* self.selects
    addresses,       \* the sorted address list init_device hands to ranges
    address_ranges,  \* self.address_ranges
    modbus_client,   \* self.modbus_client: None or "connected"
    registers,       \* self.registers: the last snapshot
    pc,              \* position of publish_loop
    blk,             \* read_register_blocks: index of the next range
    blocks,          \* read_register_blocks: its local registers dict
    reading,         \* a read_holding_registers request is in flight
    state,           \* component -> its state (set_state), as published
    subscribed,      \* components whose command topic is subscribed
    cmd,             \* the command callback the MQTT thread is running
    tickReads,       \* requests the transport was sent in this tick
    tickWords,       \* address -> word the transport returned in this tick
    tickPublished,   \* component -> display value the poll cycle published
                     \* in this tick
    sleeping,        \* seconds of the asyncio.sleep in progress, 0: none
    error,           \* what raised in this tick or at the connect, "": none
    mqtt_client,     \* self.mqtt_client: "connected" (loop thread running)
                     \* or "disconnected" (loop_stop and disconnect done)
    exit,            \* how main ended: "" (running), "cancelled" (main
                     \* returns after KeyboardInterrupt), "error" (sys.exit(1))
    codec            \* input and result of a codec function checked alone

vars == <<table, dev, main_device, sensors, binary_sensors, enum_sensors,
          switches, selects, addresses, address_ranges, modbus_client,
          registers, pc, blk, blocks, reading, state, subscribed, cmd,
          tickReads, tickWords, tickPublished, sleeping, error, mqtt_client,
          exit, codec>>

\* What main and the loop's error handling hold.
mainVars == <<sleeping, error, mqtt_client, exit, codec>>

registryVars == <<main_device, sensors, binary_sensors, enum_sensors,
                  switches, selects, addresses, address_ranges>>

tickVars == <<tickReads, tickWords, tickPublished>>

Empty == [a \in {} |-> 0]

Components == 1..Len(table)

\* ------------------------------------------------------------- init_device
\* The dict a kind's loop of init_device fills: self.<kind>[register - 1] =
\* component, a later record of the kind overwriting an earlier one.
BuildMap(kind) ==
    LET ids == {i \in 1..Len(table) : table[i].kind = kind}
        keys == {table[i].register - 1 : i \in ids}
    IN  [a \in keys |->
            CHOOSE i \in ids :
                /\ table[i].register - 1 = a
                /\ \A j \in ids : table[j].register - 1 = a => j <= i]

\* The first record at which init_device raises, Len(table) + 1 when it
\* runs to the end: parameter["options"][0] of a select raises IndexError
\* on an empty options list.
FirstInitRaising ==
    LET raising == {i \in 1..Len(table) :
                       /\ table[i].kind = "select"
                       /\ Len(table[i].options) = 0}
    IN  IF raising = {} THEN Len(table) + 1
        ELSE CHOOSE i \in raising : \A r \in raising : i <= r

\* The dict of a kind when init_device has come to record n.
BuildMapBefore(kind, n) ==
    LET ids == {i \in 1..Len(table) : table[i].kind = kind /\ i < n}
        keys == {table[i].register - 1 : i \in ids}
    IN  [a \in keys |->
            CHOOSE i \in ids :
                /\ table[i].register - 1 = a
                /\ \A j \in ids : table[j].register - 1 = a => j <= i]

\* The number of the five dicts that hold address a.
KeyCount(maps, a) == Cardinality({k \in 1..Len(maps) : a \in DOMAIN maps[k]})

RECURSIVE Repeat(_, _)
Repeat(x, n) == IF n = 0 THEN <<>> ELSE <<x>> \o Repeat(x, n - 1)

\* sorted(list(sensors.keys()) + ... + list(selects.keys())): every key of
\* every dict, ascending; an address held by two dicts appears twice.
\* The highest address the dicts hold, -1 when they hold none.
MaxKey(maps) ==
    LET keys == UNION {DOMAIN maps[k] : k \in 1..Len(maps)}
    IN  IF keys = {} THEN -1
        ELSE CHOOSE a \in keys : \A b \in keys : b <= a

RECURSIVE SortedFrom(_, _)
SortedFrom(maps, a) ==
    IF a > MaxKey(maps) THEN <<>>
    ELSE Repeat(a, KeyCount(maps, a)) \o SortedFrom(maps, a + 1)

SortedKeys(maps) == SortedFrom(maps, 0)

\* ------------------------------------------------------------------ ranges
\* A grouping key that forgets the index: no two addresses share a group.
GroupKeyWithoutIndex(s, i) == s[i]

\* itertools.groupby(enumerate(addresses), lambda pair: pair[1] - pair[0]):
\* the key of the element at (zero-based) index i is addresses[i] - i, and a
\* group is a maximal run of consecutive elements with equal keys.
GroupKey(s, i) == s[i] - (i - 1)

\* The groups from position i on, the open group having started at `first`.
RECURSIVE RangesFrom(_, _, _)
RangesFrom(s, i, first) ==
    IF i > Len(s) THEN <<>>
    ELSE IF i = Len(s) \/ GroupKey(s, i + 1) # GroupKey(s, i)
         THEN <<<<s[first], s[i]>>>> \o RangesFrom(s, i + 1, i + 1)
         ELSE RangesFrom(s, i + 1, first)

\* KronotermMqttHandler.ranges: yield b[0][1], b[-1][1] for each group.
ranges(s) == RangesFrom(s, 1, 1)

\* ------------------------------------------------------------------- codec
\* A read that hands the transport's word on as it is.
ToSignedUnconverted(word) == word

\* read_holding_registers: value - (value >> 15 << 16), the unsigned word
\* reinterpreted as a signed 16-bit integer.
ToSigned(word) == word - ((word \div 32768) * 65536)

\* A sensor that publishes the register value as it is.
SensorDecodeUnscaled(scale10, value) == value

\* A numeric sensor: float(scale) * value, in tenths.
SensorDecode(scale10, value) == scale10 * value

\* A bit test on the magnitude of the value.
BitIsSetInMagnitude(value, bit) ==
    ((IF value < 0 THEN -value ELSE value) \div (2 ^ bit)) % 2 = 1

\* value & (1 << bit) is non-zero: Python's & works on the two's complement
\* of a negative int, whose low 16 bits are the register word.
BitIsSet(value, bit) == ((value % 65536) \div (2 ^ bit)) % 2 = 1

\* A binary sensor; bit < 0 stands for a record without a bit.
BinaryDecode(bit, value) ==
    IF bit >= 0
    THEN (IF BitIsSet(value, bit) THEN "ON" ELSE "OFF")
    ELSE (IF value # 0 THEN "ON" ELSE "OFF")

\* The value of `index` after "for index, key in enumerate(keys): if value
\* == key: break": the first matching position, or the last position when
\* no key matches (keys is not empty).
EnumIndex(keys, value) ==
    IF \E i \in 1..Len(keys) : keys[i] = value
    THEN CHOOSE i \in 1..Len(keys) :
            /\ keys[i] = value
            /\ \A j \in 1..(i - 1) : keys[j] # value
    ELSE Len(keys)

\* An enum sensor: sensor.set_state(options["values"][index]).
EnumDecode(options, value) == options.values[EnumIndex(options.keys, value)]

\* A switch that is ON for positive values only.
SwitchDecodePositive(value) == IF value > 0 THEN "ON" ELSE "OFF"

\* A switch: switch.ON if self.registers[address] else switch.OFF.
SwitchDecode(value) == IF value # 0 THEN "ON" ELSE "OFF"

\* A select that publishes its first display value when no key matches.
SelectDecodeWithDefault(options, value) ==
    IF \E i \in 1..Len(options.keys) : options.keys[i] = value
    THEN <<options.values[CHOOSE i \in 1..Len(options.keys) :
                            options.keys[i] = value]>>
    ELSE <<options.values[1]>>

\* A select: <<display value>> of the first key equal to the register value,
\* <<>> (display_value is None) when there is none.
SelectDecode(options, value) ==
    IF \E i \in 1..Len(options.keys) : options.keys[i] = value
    THEN <<options.values[EnumIndex(options.keys, value)]>>
    ELSE <<>>

\* switch_callback: value = 1 if new_state == "ON" else 0.
SwitchEncode(new_state) == IF new_state = "ON" THEN 1 ELSE 0

\* An encoder that falls back to the first key for an unknown display value.
SelectEncodeWithDefault(options, new_state) ==
    IF \E i \in 1..Len(options.values) : options.values[i] = new_state
    THEN options.keys[CHOOSE i \in 1..Len(options.values) :
                        options.values[i] = new_state]
    ELSE options.keys[1]

\* An encoder that writes the position of the display value, not its key.
SelectEncodePosition(options, new_state) ==
    IF \E i \in 1..Len(options.values) : options.values[i] = new_state
    THEN (CHOOSE i \in 1..Len(options.values) :
            /\ options.values[i] = new_state
            /\ \A j \in 1..(i - 1) : options.values[j] # new_state) - 1
    ELSE -1

\* select_callback: options["keys"][index] of the first display value equal
\* to new_state, -1 (value is None) when there is none.
SelectEncode(options, new_state) ==
    IF \E i \in 1..Len(options.values) : options.values[i] = new_state
    THEN options.keys[CHOOSE i \in 1..Len(options.values) :
                        /\ options.values[i] = new_state
                        /\ \A j \in 1..(i - 1) : options.values[j] # new_state]
    ELSE -1

\* ------------------------------------------------------------- poll cycle
\* What one kind's loop of the poll cycle sets and publishes, given the
\* snapshot: <<display value>> for component c, <<>> when c is left alone.
Decode(c, value) ==
    LET d == table[c]
    IN  CASE d.kind = "sensor" -> <<SensorDecode(d.scale10, value)>>
          [] d.kind = "binary_sensor" -> <<BinaryDecode(d.bit, value)>>
          [] d.kind = "enum_sensor" -> <<EnumDecode(Options(d), value)>>
          [] d.kind = "switch" -> <<SwitchDecode(value)>>
          [] d.kind = "select" -> SelectDecode(Options(d), value)

\* The dict that registers components of c's kind.
MapOf(kind) ==
    CASE kind = "sensor" -> sensors
      [] kind = "binary_sensor" -> binary_sensors
      [] kind = "enum_sensor" -> enum_sensors
      [] kind = "switch" -> switches
      [] kind = "select" -> selects

\* The address whose dict entry is component c, -1 when no entry is:
\* "for addr, switch in self.switches.items(): if switch == component".
LookupAddress(map, c) ==
    IF \E a \in DOMAIN map : map[a] = c
    THEN CHOOSE a \in DOMAIN map : map[a] = c
    ELSE -1

\* "if address in self.registers" of the five loops.
InSnapshot(snapshot, a) == a \in DOMAIN snapshot

\* The components the poll cycle sets and publishes from `snapshot`, with
\* the display value of each.
PollPublished(snapshot) ==
    LET at(c) == LookupAddress(MapOf(table[c].kind), c)
        hit == {c \in Components :
                    /\ at(c) >= 0
                    /\ InSnapshot(snapshot, at(c))
                    /\ Decode(c, snapshot[at(c)]) # <<>>}
    IN  [c \in hit |-> Decode(c, snapshot[at(c)])]

\* The loop of c's kind raises when it comes to c.  An enum sensor's dict
\* entry is (sensor, *options): "for address, (sensor, options) in ..."
\* raises ValueError unless the options list holds one table, whether or not
\* the address was read; options["values"][index] raises IndexError when
\* index is no position of values (with keys and values both empty, index
\* is unbound or stale and no position exists).  A select raises IndexError
\* when the matching key's position is none of values.
CodecRaises(c, snapshot) ==
    LET d == table[c]
        a == LookupAddress(MapOf(d.kind), c)
    IN  /\ a >= 0
        /\ CASE d.kind = "enum_sensor" ->
                  IF Len(d.options) # 1 THEN TRUE
                  ELSE /\ InSnapshot(snapshot, a)
                       /\ EnumIndex(Options(d).keys, snapshot[a])
                              \notin 1..Len(Options(d).values)
             [] d.kind = "select" ->
                  /\ InSnapshot(snapshot, a)
                  /\ \E i \in 1..Len(Options(d).keys) :
                        Options(d).keys[i] = snapshot[a]
                  /\ EnumIndex(Options(d).keys, snapshot[a])
                         > Len(Options(d).values)
             [] OTHER -> FALSE

\* The first component at which the five loops raise, Len(table) + 1 when
\* they run to the end.  The loops come to the components in the table's
\* order when no address repeats within a kind.
FirstRaising(snapshot) ==
    LET raising == {c \in Components : CodecRaises(c, snapshot)}
    IN  IF raising = {} THEN Len(table) + 1
        ELSE CHOOSE c \in raising : \A r \in raising : c <= r

\* What the loops have set and published when they come to component n.
PublishedBefore(snapshot, n) ==
    LET at(c) == LookupAddress(MapOf(table[c].kind), c)
        hit == {c \in Components :
                    /\ c < n
                    /\ at(c) >= 0
                    /\ InSnapshot(snapshot, at(c))
                    /\ Decode(c, snapshot[at(c)]) # <<>>}
    IN  [c \in hit |-> Decode(c, snapshot[at(c)])]

\* A pass that starts from the previous snapshot instead of an empty dict.
KeepPreviousBlocks(previous) == previous

\* The dict read_register_blocks starts a pass with.
FreshBlocks(previous) == Empty

\* registers[address_start + i] = value for the values of one response.
MergeBlock(acc, start, values) ==
    [a \in (DOMAIN acc) \cup {start + i - 1 : i \in 1..Len(values)} |->
        IF a - start + 1 \in 1..Len(values) THEN values[a - start + 1]
        ELSE acc[a]]

\* The first n registers of a block as the device holds them.
DeviceWords(start, n) == [i \in 1..n |-> dev[start + i - 1]]

SignedValues(words) == [i \in 1..Len(words) |-> ToSigned(words[i])]

\* settings.polling_interval, in seconds.
PollingInterval == 10

\* A delay that grows with the error.
BackoffDelayDoubled(interval) == 2 * interval

\* The delay the "except Exception" clause sleeps before the next tick.
BackoffDelay(interval) == interval

\* ------------------------------------------------------------------- init
IdleCmd ==
    [phase |-> "idle", component |-> 0, new_state |-> "", address |-> -1,
     value |-> -1, writes |-> <<>>, published |-> <<>>, result |-> ""]

\* No codec function is being checked alone.
NoCodec == [op |-> "none"]

\* What __init__ leaves in the handler and what main has done when it calls
\* publish_loop: the MQTT client is connected and its loop thread runs, no
\* Modbus client, empty dicts.
Constructed ==
    /\ main_device = None
    /\ sensors = Empty
    /\ binary_sensors = Empty
    /\ enum_sensors = Empty
    /\ switches = Empty
    /\ selects = Empty
    /\ address_ranges = <<>>
    /\ modbus_client = None
    /\ registers = Empty
    /\ blk = 1
    /\ blocks = Empty
    /\ reading = FALSE
    /\ subscribed = {}
    /\ cmd = IdleCmd
    /\ tickReads = <<>>
    /\ tickWords = Empty
    /\ tickPublished = Empty
    /\ sleeping = 0
    /\ error = ""
    /\ mqtt_client = "connected"
    /\ exit = ""

Init ==
    /\ table \in Tables
    /\ dev \in [Addr -> Words]
    /\ \A a \in Addr :
          (\A i \in 1..Len(table) : table[i].register - 1 # a) => dev[a] = 0
    /\ main_device = None
    /\ sensors = Empty
    /\ binary_sensors = Empty
    /\ enum_sensors = Empty
    /\ switches = Empty
    /\ selects = Empty
    /\ addresses = <<>>
    /\ address_ranges = <<>>
    /\ modbus_client = None
    /\ registers = Empty
    /\ pc = "start"
    /\ blk = 1
    /\ blocks = Empty
    /\ reading = FALSE
    /\ state = [c \in Components |-> NotSet]
    /\ subscribed = {}
    /\ cmd = IdleCmd
    /\ tickReads = <<>>
    /\ tickWords = Empty
    /\ tickPublished = Empty
    /\ sleeping = 0
    /\ error = ""
    /\ mqtt_client = "connected"
    /\ exit = ""
    /\ codec = NoCodec

\* ---------------------------------------------------------------- actions
\* publish_loop up to get_modbus_client: "if self.main_device is None:
\* await self.init_device()".  init_device creates the device, fills the
\* five dicts from the table and computes address_ranges; it checks nothing
\* and so accepts every table on which none of its statements raises.
InitDevice ==
    /\ pc = "start"
    /\ FirstInitRaising > Len(table)
    /\ IF main_device = None
       THEN LET maps == <<BuildMap("sensor"), BuildMap("binary_sensor"),
                          BuildMap("enum_sensor"), BuildMap("switch"),
                          BuildMap("select")>>
            IN  /\ main_device' = "MqttDevice"
                /\ sensors' = maps[1]
                /\ binary_sensors' = maps[2]
                /\ enum_sensors' = maps[3]
                /\ switches' = maps[4]
                /\ selects' = maps[5]
                /\ addresses' = SortedKeys(maps)
                /\ address_ranges' = ranges(SortedKeys(maps))
       ELSE UNCHANGED registryVars
    /\ pc' = "connect"
    /\ UNCHANGED <<table, dev, modbus_client, registers, blk, blocks, reading,
                   state, subscribed, cmd, tickVars, mainVars>>

\* get_modbus_client connects: the loop is entered and its first tick starts.
Connect ==
    /\ pc = "connect"
    /\ modbus_client' = "connected"
    /\ pc' = "read"
    /\ blk' = 1
    /\ blocks' = FreshBlocks(registers)
    /\ UNCHANGED <<table, dev, registryVars, registers, reading, state,
                   subscribed, cmd, tickVars, mainVars>>

\* The transport does not connect: client.connect() returns False and
\* get_modbus_client raises ConnectionError before self.modbus_client is
\* assigned; the exception leaves publish_loop
\* and main's "with" block, and main ends in "except Exception" with
\* sys.exit(1).
ConnectFail ==
    /\ pc = "connect"
    /\ pc' = "exiting"
    /\ error' = "connect"
    /\ exit' = "error"
    /\ UNCHANGED <<table, dev, registryVars, modbus_client, registers, blk,
                   blocks, reading, state, subscribed, cmd, tickVars,
                   sleeping, mqtt_client, codec>>

\* read_register_blocks sends the request for the next range.
ReadRequest ==
    /\ pc = "read"
    /\ ~reading
    /\ blk <= Len(address_ranges)
    /\ reading' = TRUE
    /\ tickReads' = Append(tickReads, address_ranges[blk])
    /\ error' = ""
    /\ UNCHANGED <<table, dev, registryVars, modbus_client, registers, pc, blk,
                   blocks, state, subscribed, cmd, tickWords, tickPublished,
                   sleeping, mqtt_client, exit, codec>>

\* The response holds the first n registers of the block (n = count: the
\* whole block; n < count: fewer values than were asked for).
ReadValues ==
    /\ pc = "read"
    /\ reading
    /\ LET start == address_ranges[blk][1]
           count == address_ranges[blk][2] - start + 1
       IN  \E n \in 1..count :
              /\ blocks' = MergeBlock(blocks, start,
                                      SignedValues(DeviceWords(start, n)))
              /\ tickWords' = MergeBlock(tickWords, start,
                                         DeviceWords(start, n))
    /\ reading' = FALSE
    /\ blk' = blk + 1
    /\ UNCHANGED <<table, dev, registryVars, modbus_client, registers, pc,
                   state, subscribed, cmd, tickReads, tickPublished, mainVars>>

\* The response is an ExceptionResponse or a ModbusIOException, for which
\* read_holding_registers returns None, or it holds no register: "if
\* values:" leaves the block out.
ReadError ==
    /\ pc = "read"
    /\ reading
    /\ reading' = FALSE
    /\ blk' = blk + 1
    /\ UNCHANGED <<table, dev, registryVars, modbus_client, registers, pc,
                   blocks, state, subscribed, cmd, tickVars, mainVars>>

\* The transport call raises (or the response type assertion fails): the
\* tick ends in "except Exception" with self.registers as it was.
ReadRaise ==
    /\ pc = "read"
    /\ reading
    /\ reading' = FALSE
    /\ pc' = "backoff"
    /\ error' = "transport"
    /\ sleeping' = BackoffDelay(PollingInterval)
    /\ UNCHANGED <<table, dev, registryVars, modbus_client, registers, blk,
                   blocks, state, subscribed, cmd, tickVars, mqtt_client,
                   exit, codec>>

\* read_register_blocks returns: self.registers = the new dict, then the
\* five loops set and publish every component found in it, none of them
\* raising.  Publishing a switch or a select subscribes its command topic.
PollPublish ==
    /\ pc = "read"
    /\ ~reading
    /\ blk > Len(address_ranges)
    /\ FirstRaising(blocks) > Len(table)
    /\ registers' = blocks
    /\ LET pub == PollPublished(blocks)
       IN  /\ state' = [c \in Components |->
                          IF c \in DOMAIN pub THEN pub[c] ELSE state[c]]
           /\ tickPublished' = pub
           /\ subscribed' = subscribed \cup
                 {c \in DOMAIN pub : table[c].kind \in {"switch", "select"}}
    /\ pc' = "sleep"
    /\ error' = ""
    /\ sleeping' = PollingInterval
    /\ UNCHANGED <<table, dev, registryVars, modbus_client, blk, blocks,
                   reading, cmd, tickReads, tickWords, mqtt_client, exit,
                   codec>>

\* A loop whose sleep after an error never ends.
SleepEndsAfterTickOnly(at) == at = "sleep"

\* Both sleeps of the loop are "await asyncio.sleep(polling_interval)" and
\* end after that delay: the one that ends a tick and the one of the
\* except clause.
SleepEnds(at) == at \in {"sleep", "backoff"}

\* asyncio.sleep(polling_interval) is over, after a tick or after an error:
\* the next tick starts.  error keeps what the tick before raised until the
\* new tick has sent a request or published.
Sleep ==
    /\ SleepEnds(pc)
    /\ pc' = "read"
    /\ blk' = 1
    /\ blocks' = FreshBlocks(registers)
    /\ tickReads' = <<>>
    /\ tickWords' = Empty
    /\ tickPublished' = Empty
    /\ sleeping' = 0
    /\ UNCHANGED <<table, dev, registryVars, modbus_client, registers, reading,
                   state, subscribed, cmd, error, mqtt_client, exit, codec>>

\* ------------------------------------------------------ command callbacks
\* The display values a command message carries.
SwitchCommands == {"ON", "OFF"}
SelectCommands == {"a", "b", "zz"}

\* A write_register that does not look at the response.
WriteRegisterResultUnchecked(response) == TRUE

\* write_register's result for a response: False for an ExceptionResponse
\* or a ModbusIOException, True for a WriteSingleRegisterResponse.
WriteRegisterResult(response) == response = "ack"

\* A callback that sends the write a second time.
WritingTwice(c, new_state, address, value) ==
    [phase |-> "writing", component |-> c, new_state |-> new_state,
     address |-> address, value |-> value,
     writes |-> <<[address |-> address, value |-> value],
                  [address |-> address, value |-> value]>>,
     published |-> <<>>, result |-> ""]

\* The callback's state once it has called write_register.
Writing(c, new_state, address, value) ==
    [phase |-> "writing", component |-> c, new_state |-> new_state,
     address |-> address, value |-> value,
     writes |-> <<[address |-> address, value |-> value]>>,
     published |-> <<>>, result |-> ""]

\* The callback's state once it has returned without calling write_register.
Returned(c, new_state, address, value, result) ==
    [phase |-> "returned", component |-> c, new_state |-> new_state,
     address |-> address, value |-> value, writes |-> <<>>,
     published |-> <<>>, result |-> result]

\* A delivery for components whose command topic is subscribed from the
\* start, before their first publish.
DeliveredBeforePublish(c, kind) ==
    /\ mqtt_client = "connected"
    /\ cmd.phase = "idle"
    /\ table[c].kind = kind

\* A command message of a subscribed component is delivered on the MQTT
\* thread, which runs from loop_start to loop_stop, one callback at a time.
Delivered(c, kind) ==
    /\ mqtt_client = "connected"
    /\ cmd.phase = "idle"
    /\ c \in subscribed
    /\ table[c].kind = kind

\* switch_callback up to its write_register call.
SwitchCallback ==
    \E c \in Components : \E new_state \in SwitchCommands :
        /\ Delivered(c, "switch")
        /\ LET address == LookupAddress(switches, c)
               value == SwitchEncode(new_state)
           IN  cmd' = IF address < 0
                      THEN Returned(c, new_state, address, -1, "unresolved")
                      ELSE IF modbus_client = None
                      THEN Returned(c, new_state, address, value, "raised")
                      ELSE Writing(c, new_state, address, value)
        /\ UNCHANGED <<table, dev, registryVars, modbus_client, registers, pc,
                       blk, blocks, reading, state, subscribed, tickVars, mainVars>>

\* select_callback up to its write_register call.
SelectCallback ==
    \E c \in Components : \E new_state \in SelectCommands :
        /\ Delivered(c, "select")
        /\ LET address == LookupAddress(selects, c)
               value == SelectEncode(Options(table[c]), new_state)
           IN  cmd' = IF address < 0
                      THEN Returned(c, new_state, address, -1, "unresolved")
                      ELSE IF value < 0
                      THEN Returned(c, new_state, address, value,
                                    "unknown_option")
                      ELSE IF modbus_client = None
                      THEN Returned(c, new_state, address, value, "raised")
                      ELSE Writing(c, new_state, address, value)
        /\ UNCHANGED <<table, dev, registryVars, modbus_client, registers, pc,
                       blk, blocks, reading, state, subscribed, tickVars, mainVars>>

\* write_register returns and the callback ends: on success the device
\* holds the value, and the callback sets and publishes the new state.  A
\* response that arrives although __exit__ has closed the client came over
\* a transport that was still, or is again, open.
WriteReturn ==
    /\ cmd.phase = "writing"
    /\ \E response \in {"ack", "error"} :
          LET success == WriteRegisterResult(response)
          IN  /\ cmd' = [cmd EXCEPT !.phase = "returned",
                                    !.result = response,
                                    !.published =
                                        IF success THEN <<cmd.new_state>>
                                        ELSE <<>>]
              /\ state' = IF success
                          THEN [state EXCEPT
                                  ![cmd.component] = <<cmd.new_state>>]
                          ELSE state
              /\ dev' = IF response = "ack"
                        THEN [dev EXCEPT ![cmd.address] = cmd.value]
                        ELSE dev
    /\ modbus_client' \in IF modbus_client = "closed"
                           THEN {"closed", "connected"}
                           ELSE {modbus_client}
    /\ UNCHANGED <<table, registryVars, registers, pc, blk, blocks, reading,
                   subscribed, tickVars, mainVars>>

\* The transport call raises (or the response type assertion fails): the
\* exception leaves the callback.
WriteRaise ==
    /\ cmd.phase = "writing"
    /\ cmd' = [cmd EXCEPT !.phase = "returned", !.result = "raised"]
    /\ UNCHANGED <<table, dev, registryVars, modbus_client, registers, pc,
                   blk, blocks, reading, state, subscribed, tickVars, mainVars>>

\* A callback that drops the switches and selects from their dicts when
\* it returns.
CallbackDoneUnregistering ==
    /\ cmd.phase = "returned"
    /\ cmd' = IdleCmd
    /\ switches' = Empty
    /\ selects' = Empty
    /\ UNCHANGED <<table, dev, main_device, sensors, binary_sensors,
                   enum_sensors, addresses, address_ranges, modbus_client,
                   registers, pc, blk, blocks, reading, state, subscribed,
                   tickVars, mainVars>>

\* The MQTT thread is ready for the next message.
CallbackDone ==
    /\ cmd.phase = "returned"
    /\ cmd' = IdleCmd
    /\ UNCHANGED <<table, dev, registryVars, modbus_client, registers, pc,
                   blk, blocks, reading, state, subscribed, tickVars, mainVars>>

\* ------------------------------------------------------------------ exit
\* An exception has left publish_loop and __exit__ runs on the main thread:
\* "if self.modbus_client: self.modbus_client.disconnect()".
ExitModbus ==
    /\ pc = "exiting"
    /\ modbus_client' = IF modbus_client = None THEN None ELSE "closed"
    /\ pc' = "closing"
    /\ UNCHANGED <<table, dev, registryVars, registers, blk, blocks, reading,
                   state, subscribed, cmd, tickVars, mainVars>>

\* __exit__: loop_stop waits for the MQTT thread, which ends the callback
\* it is in, and disconnect closes the connection; then main returns or
\* exits.
ExitMqtt ==
    /\ pc = "closing"
    /\ cmd.phase # "writing"
    /\ mqtt_client' = "disconnected"
    /\ pc' = "exited"
    /\ UNCHANGED <<table, dev, registryVars, modbus_client, registers, blk,
                   blocks, reading, state, subscribed, cmd, tickVars,
                   sleeping, error, exit, codec>>

\* ---------------------------------------------------------- specification
Next ==
    \/ InitDevice
    \/ Connect
    \/ ConnectFail
    \/ ReadRequest
    \/ ReadValues
    \/ ReadError
    \/ ReadRaise
    \/ PollPublish
    \/ Sleep
    \/ SwitchCallback
    \/ SelectCallback
    \/ WriteReturn
    \/ WriteRaise
    \/ CallbackDone
    \/ ExitModbus
    \/ ExitMqtt

Spec == Init /\ [][Next]_vars

\* ------------------------------------- the loop with its errors and its end
\* Option lists a definition file can hold besides the well-formed one.
TwoTables ==
    <<[keys |-> <<0, 1>>, values |-> <<"x", "y">>],
      [keys |-> <<0, 1>>, values |-> <<"x", "y">>]>>

ShortValues == <<[keys |-> <<0, 1>>, values |-> <<"x">>]>>

EmptyTable == <<[keys |-> <<>>, values |-> <<>>]>>

MalformedOptions == {<<>>, TwoTables, ShortValues, EmptyTable}

\* The tables of the loop's specification: one well-formed record of each
\* kind, an enum sensor or a select with a malformed options list, alone
\* or after a well-formed record of another kind.
LoopTables ==
    LET good == {<<Definition(Kinds[k], 1)>> : k \in 1..Len(Kinds)}
        bad == {<<[Definition(kind, 1) EXCEPT !.options = o]>> :
                    kind \in {"enum_sensor", "select"},
                    o \in MalformedOptions \ {TwoTables}}
               \cup {<<[Definition("enum_sensor", 1)
                            EXCEPT !.options = TwoTables]>>}
    IN  good \cup bad
        \cup {<<Definition("sensor", 2)>> \o t : t \in bad}
        \cup {<<Definition("switch", 2), Definition("select", 1)>>,
              <<Definition("switch", 2),
                [Definition("select", 1) EXCEPT !.options = ShortValues]>>}

InitLoop ==
    /\ table \in LoopTables
    /\ dev \in [Addr -> Words]
    /\ \A a \in Addr :
          (\A i \in 1..Len(table) : table[i].register - 1 # a) => dev[a] = 0
    /\ Constructed
    /\ addresses = <<>>
    /\ pc = "start"
    /\ state = [c \in Components |-> NotSet]
    /\ codec = NoCodec

\* A statement of init_device raises: the dicts hold the records before it,
\* address_ranges is not computed, the exception leaves publish_loop and
\* main's "with" block, and main ends in "except Exception" with
\* sys.exit(1).
InitDeviceRaise ==
    /\ pc = "start"
    /\ FirstInitRaising <= Len(table)
    /\ main_device' = "MqttDevice"
    /\ sensors' = BuildMapBefore("sensor", FirstInitRaising)
    /\ binary_sensors' = BuildMapBefore("binary_sensor", FirstInitRaising)
    /\ enum_sensors' = BuildMapBefore("enum_sensor", FirstInitRaising)
    /\ switches' = BuildMapBefore("switch", FirstInitRaising)
    /\ selects' = BuildMapBefore("select", FirstInitRaising)
    /\ pc' = "exiting"
    /\ error' = "config"
    /\ exit' = "error"
    /\ UNCHANGED <<table, dev, addresses, address_ranges, modbus_client,
                   registers, blk, blocks, reading, state, subscribed, cmd,
                   tickVars, sleeping, mqtt_client, codec>>

\* One of the five loops raises while it decodes: the components before it
\* are set and published, the tick ends in "except Exception".
PollCodecRaise ==
    /\ pc = "read"
    /\ ~reading
    /\ blk > Len(address_ranges)
    /\ FirstRaising(blocks) <= Len(table)
    /\ registers' = blocks
    /\ LET pub == PublishedBefore(blocks, FirstRaising(blocks))
       IN  /\ state' = [c \in Components |->
                          IF c \in DOMAIN pub THEN pub[c] ELSE state[c]]
           /\ tickPublished' = pub
           /\ subscribed' = subscribed \cup
                 {c \in DOMAIN pub : table[c].kind \in {"switch", "select"}}
    /\ pc' = "backoff"
    /\ error' = "codec"
    /\ sleeping' = BackoffDelay(PollingInterval)
    /\ UNCHANGED <<table, dev, registryVars, modbus_client, blk, blocks,
                   reading, cmd, tickReads, tickWords, mqtt_client, exit,
                   codec>>

\* publish raises for component c, which the loops come to before any of
\* them raises while decoding: c is set, the components before it are set
\* and published, the tick ends in "except Exception".
PollPublisherRaise ==
    /\ pc = "read"
    /\ ~reading
    /\ blk > Len(address_ranges)
    /\ registers' = blocks
    /\ \E c \in DOMAIN PublishedBefore(blocks, FirstRaising(blocks)) :
          LET pub == PublishedBefore(blocks, c)
              value == PublishedBefore(blocks, c + 1)[c]
          IN  /\ state' = [k \in Components |->
                             IF k \in DOMAIN pub THEN pub[k]
                             ELSE IF k = c THEN value ELSE state[k]]
              /\ tickPublished' = pub
              /\ subscribed' = subscribed \cup
                    {k \in DOMAIN pub :
                        table[k].kind \in {"switch", "select"}}
    /\ pc' = "backoff"
    /\ error' = "publisher"
    /\ sleeping' = BackoffDelay(PollingInterval)
    /\ UNCHANGED <<table, dev, registryVars, modbus_client, blk, blocks,
                   reading, cmd, tickReads, tickWords, mqtt_client, exit,
                   codec>>

\* KeyboardInterrupt or the task's cancellation reaches publish_loop inside
\* its while loop: neither is an Exception, so it leaves the loop and
\* main's "with" block.
Interrupt ==
    /\ pc \in {"read", "sleep", "backoff"}
    /\ pc' = "exiting"
    /\ exit' = "cancelled"
    /\ reading' = FALSE
    /\ sleeping' = 0
    /\ UNCHANGED <<table, dev, registryVars, modbus_client, registers, blk,
                   blocks, state, subscribed, cmd, tickVars, error,
                   mqtt_client, codec>>

\* One step of the poll loop's own thread of control.
LoopStep ==
    \/ ReadRequest
    \/ ReadValues
    \/ ReadError
    \/ ReadRaise
    \/ PollPublish
    \/ PollCodecRaise
    \/ PollPublisherRaise
    \/ Sleep

NextLoop ==
    \/ InitDevice
    \/ InitDeviceRaise
    \/ Connect
    \/ ConnectFail
    \/ ReadRequest
    \/ ReadValues
    \/ ReadError
    \/ ReadRaise
    \/ PollPublish
    \/ PollCodecRaise
    \/ PollPublisherRaise
    \/ Sleep
    \/ Interrupt
    \/ SwitchCallback
    \/ SelectCallback
    \/ WriteReturn
    \/ WriteRaise
    \/ CallbackDone
    \/ ExitModbus
    \/ ExitMqtt

SpecLoop == InitLoop /\ [][NextLoop]_vars

\* The loop's thread is scheduled: a Modbus request ends within the client's
\* timeout and asyncio.sleep ends after its delay.
SpecLive == SpecLoop /\ WF_vars(LoopStep)

\* -------------------------------------------------- the codecs, each alone
\* The handler besides a codec's input: constructed, with no table.
CodecFrame ==
    /\ table = <<>>
    /\ dev = [a \in Addr |-> 0]
    /\ Constructed
    /\ addresses = <<>>
    /\ state = <<>>
    /\ pc = "codec"

\* Option tables hold up to MaxOptions keys and display values.
MaxOptions == 2

OptionKeys == 0..MaxOptions

OptionValues == {"a", "b", "c"}

\* Every non-empty list of up to MaxOptions elements of S.
Lists(S) == UNION {[1..n -> S] : n \in 1..MaxOptions}

\* The option tables of a select: a list of keys and a list of display
\* values, any of which may repeat, of any two lengths.
OptionTables == [keys : Lists(OptionKeys), values : Lists(OptionValues)]

\* The smaller of two lengths.
Min(a, b) == IF a <= b THEN a ELSE b

\* A select's option table and the position of one of its configured
\* (key, display value) pairs.
InitSelectCodec ==
    /\ CodecFrame
    /\ \E o \in OptionTables :
          \E i \in 1..Min(Len(o.keys), Len(o.values)) :
             codec = [op |-> "select", options |-> o, index |-> i,
                      written |-> -1, published |-> <<>>]

\* select_callback encodes the pair's display value and the select loop of
\* the poll cycle decodes the pair's key.
SelectRoundTrip ==
    /\ pc = "codec"
    /\ codec.op = "select"
    /\ codec' = [codec EXCEPT
                   !.written = SelectEncode(codec.options,
                                   codec.options.values[codec.index]),
                   !.published = SelectDecode(codec.options,
                                   codec.options.keys[codec.index])]
    /\ pc' = "coded"
    /\ UNCHANGED <<table, dev, registryVars, modbus_client, registers, blk,
                   blocks, reading, state, subscribed, cmd, tickVars,
                   sleeping, error, mqtt_client, exit>>

NextSelectCodec == SelectRoundTrip

SpecSelectCodec == InitSelectCodec /\ [][NextSelectCodec]_vars

\* The display values a switch command can carry.
SwitchDisplays == {"ON", "OFF", "on", "1", ""}

\* A register word for the switch to decode, or a display value for it to
\* encode.
InitSwitchCodec ==
    /\ CodecFrame
    /\ \/ \E w \in 0..65535 :
             codec = [op |-> "switch", word |-> w, raw |-> 0,
                      decoded |-> "", encoded |-> -1, redecoded |-> ""]
       \/ \E d \in SwitchDisplays :
             codec = [op |-> "switch_command", display |-> d,
                      encoded |-> -1]

\* The word is read as a signed value, the switch loop decodes it,
\* switch_callback encodes the display value and the switch loop decodes
\* what was written.
SwitchRoundTrip ==
    /\ pc = "codec"
    /\ codec.op = "switch"
    /\ LET raw == ToSigned(codec.word)
           decoded == SwitchDecode(raw)
           encoded == SwitchEncode(decoded)
       IN  codec' = [codec EXCEPT !.raw = raw,
                                  !.decoded = decoded,
                                  !.encoded = encoded,
                                  !.redecoded = SwitchDecode(encoded)]
    /\ pc' = "coded"
    /\ UNCHANGED <<table, dev, registryVars, modbus_client, registers, blk,
                   blocks, reading, state, subscribed, cmd, tickVars,
                   sleeping, error, mqtt_client, exit>>

\* switch_callback encodes the display value of a command.
SwitchCommandEncode ==
    /\ pc = "codec"
    /\ codec.op = "switch_command"
    /\ codec' = [codec EXCEPT !.encoded = SwitchEncode(codec.display)]
    /\ pc' = "coded"
    /\ UNCHANGED <<table, dev, registryVars, modbus_client, registers, blk,
                   blocks, reading, state, subscribed, cmd, tickVars,
                   sleeping, error, mqtt_client, exit>>

NextSwitchCodec ==
    \/ SwitchRoundTrip
    \/ SwitchCommandEncode

SpecSwitchCodec == InitSwitchCodec /\ [][NextSwitchCodec]_vars

\* The bit of a binary sensor record: 0..15, or -1 for a record without.
Bits == -1..15

\* A register word for a binary sensor to decode.
InitBinaryCodec ==
    /\ CodecFrame
    /\ \E w \in 0..65535 :
          codec = [op |-> "binary", word |-> w, raw |-> 0, bit |-> -1,
                   decoded |-> ""]

\* The word is read as a signed value and the binary sensor loop decodes it
\* for the record's bit.
BinaryDecodeApply ==
    /\ pc = "codec"
    /\ codec.op = "binary"
    /\ \E bit \in Bits :
          codec' = [codec EXCEPT
                      !.raw = ToSigned(codec.word),
                      !.bit = bit,
                      !.decoded = BinaryDecode(bit, ToSigned(codec.word))]
    /\ pc' = "coded"
    /\ UNCHANGED <<table, dev, registryVars, modbus_client, registers, blk,
                   blocks, reading, state, subscribed, cmd, tickVars,
                   sleeping, error, mqtt_client, exit>>

NextBinaryCodec == BinaryDecodeApply

SpecBinaryCodec == InitBinaryCodec /\ [][NextBinaryCodec]_vars

\* A register word of a response for read_holding_registers to convert.
InitSignedCodec ==
    /\ CodecFrame
    /\ \E w \in 0..65535 :
          codec = [op |-> "signed", word |-> w, value |-> 0]

\* read_holding_registers returns the word's conversion.
SignedConvert ==
    /\ pc = "codec"
    /\ codec.op = "signed"
    /\ codec' = [codec EXCEPT !.value = ToSigned(codec.word)]
    /\ pc' = "coded"
    /\ UNCHANGED <<table, dev, registryVars, modbus_client, registers, blk,
                   blocks, reading, state, subscribed, cmd, tickVars,
                   sleeping, error, mqtt_client, exit>>

NextSignedCodec == SignedConvert

SpecSignedCodec == InitSignedCodec /\ [][NextSignedCodec]_vars

\* --------------------------------------- one sensor and one switch, whole
\* A sensor at register 101 with scale 0.5 and a switch at register 50.
EndToEndTable ==
    <<[kind |-> "sensor", register |-> 101, scale10 |-> 5],
      [kind |-> "switch", register |-> 50]>>

\* The heat pump holds 1 at address 49 and 40 at address 100.
EndToEndDevice == (49 :> 1) @@ (100 :> 40)

InitEndToEnd ==
    /\ table = EndToEndTable
    /\ dev = EndToEndDevice
    /\ Constructed
    /\ addresses = <<>>
    /\ pc = "start"
    /\ state = [c \in Components |-> NotSet]
    /\ codec = NoCodec

NextEndToEnd ==
    \/ InitDevice
    \/ Connect
    \/ ConnectFail
    \/ ReadRequest
    \/ ReadValues
    \/ ReadError
    \/ ReadRaise
    \/ PollPublish
    \/ Sleep
    \/ SwitchCallback
    \/ WriteReturn
    \/ WriteRaise
    \/ CallbackDone
    \/ ExitModbus
    \/ ExitMqtt

SpecEndToEnd == InitEndToEnd /\ [][NextEndToEnd]_vars

\* ------------------------------------------- the coalescer checked alone
RECURSIVE SortedList(_)
SortedList(S) ==
    IF S = {} THEN <<>>
    ELSE LET m == CHOOSE x \in S : \A y \in S : x <= y
         IN  <<m>> \o SortedList(S \ {m})

\* Every sorted list of distinct addresses up to MaxRangeAddr.
InitRanges ==
    /\ table = <<>>
    /\ dev = [a \in Addr |-> 0]
    /\ main_device = None
    /\ sensors = Empty
    /\ binary_sensors = Empty
    /\ enum_sensors = Empty
    /\ switches = Empty
    /\ selects = Empty
    /\ addresses \in {SortedList(S) : S \in SUBSET (0..MaxRangeAddr)}
    /\ address_ranges = <<>>
    /\ modbus_client = None
    /\ registers = Empty
    /\ pc = "ranges"
    /\ blk = 1
    /\ blocks = Empty
    /\ reading = FALSE
    /\ state = <<>>
    /\ subscribed = {}
    /\ cmd = IdleCmd
    /\ tickReads = <<>>
    /\ tickWords = Empty
    /\ tickPublished = Empty
    /\ sleeping = 0
    /\ error = ""
    /\ mqtt_client = "connected"
    /\ exit = ""
    /\ codec = NoCodec

\* self.address_ranges = list(self.ranges(addresses))
ApplyRanges ==
    /\ pc = "ranges"
    /\ address_ranges' = ranges(addresses)
    /\ pc' = "ranged"
    /\ UNCHANGED <<table, dev, main_device, sensors, binary_sensors,
                   enum_sensors, switches, selects, addresses, modbus_client,
                   registers, blk, blocks, reading, state, subscribed, cmd,
                   tickVars, mainVars>>

NextRanges == ApplyRanges

SpecRanges == InitRanges /\ [][NextRanges]_vars

\* ------------------------------------------------------------- properties
\* The address component c is registered at, -1 when it is in no dict.
At(c) == LookupAddress(MapOf(table[c].kind), c)

Registered == {c \in Components : At(c) >= 0}

Values(seq) == {seq[i] : i \in 1..Len(seq)}

\* A poll cycle has run to its end and the loop sleeps.
TickDone == pc = "sleep"

\* C1: a command whose write is not acknowledged (write_register returns
\* False, or the call raises) leaves every component's state as it was:
\* the step in which such a callback returns neither sets nor publishes a
\* state.
C1_FailedWriteKeepsState ==
    [][(/\ cmd.phase # "returned"
        /\ cmd'.phase = "returned"
        /\ cmd'.result # "ack")
       => (state' = state /\ cmd'.published = <<>>)]_vars

\* A switch command whose write the device rejected has returned, and the
\* switch does not show the requested state.
C1_Witness ==
    /\ cmd.phase = "returned"
    /\ cmd.result = "error"
    /\ table[cmd.component].kind = "switch"
    /\ state[cmd.component] # <<cmd.new_state>>

\* C2: transport access is serialized: a register write of a command
\* callback is never in flight while a block read of the poll cycle is in
\* flight on the same Modbus client.
C2_TransportSerialized == ~(reading /\ cmd.phase = "writing")

\* C3 as stated: at the end of a poll cycle every registered component
\* whose address is in the snapshot has been published in this tick.
C3_PresentAlwaysPublished ==
    TickDone =>
        \A c \in Registered :
            At(c) \in DOMAIN registers => c \in DOMAIN tickPublished

\* A select whose register value is one of its option keys.
SelectKeyMatches(c, value) ==
    \E i \in 1..Len(Options(table[c]).keys) :
        Options(table[c]).keys[i] = value

\* C3, amended: at the end of a poll cycle, a registered component whose
\* address is absent from the snapshot was not published in this tick; one
\* whose address is present was published, unless it is a select whose
\* register value is none of its keys; and every value published in the tick
\* is the decoding of a word the transport returned in this tick.
C3_PartialSnapshot ==
    TickDone =>
        /\ \A c \in Registered :
              IF At(c) \in DOMAIN registers
              THEN (c \in DOMAIN tickPublished) <=>
                      (table[c].kind = "select"
                          => SelectKeyMatches(c, registers[At(c)]))
              ELSE c \notin DOMAIN tickPublished
        /\ \A c \in DOMAIN tickPublished :
              /\ c \in Registered
              /\ At(c) \in DOMAIN tickWords
              /\ tickPublished[c] = Decode(c, ToSigned(tickWords[At(c)]))

\* A poll cycle in which one registered component's address is missing from
\* the snapshot and another one's is there and was published, after an
\* earlier cycle had read the missing address.
C3_Witness ==
    /\ TickDone
    /\ \E c \in Registered :
          /\ At(c) \notin DOMAIN registers
          /\ state[c] # NotSet
    /\ \E c \in Registered :
          /\ At(c) \in DOMAIN registers
          /\ c \in DOMAIN tickPublished

\* C4: an enum sensor is published in a tick only when one of its keys
\* equals the register value, and then with that key's display value; when
\* no key matches, nothing is published for it.
C4_UnmatchedEnumNotPublished ==
    TickDone =>
        \A c \in Registered :
            (table[c].kind = "enum_sensor" /\ c \in DOMAIN tickPublished) =>
                \E i \in 1..Len(Options(table[c]).keys) :
                    /\ At(c) \in DOMAIN registers
                    /\ Options(table[c]).keys[i] = registers[At(c)]
                    /\ tickPublished[c] = <<Options(table[c]).values[i]>>

\* The addresses the inclusive ranges of a list cover.
Covered(rs) == UNION {rs[i][1]..rs[i][2] : i \in 1..Len(rs)}

\* C5: for a sorted list of distinct non-negative addresses the ranges cover
\* exactly the addresses of the list, each range is well-formed, a range
\* starts more than one above the end of the range before it (so the ranges
\* are ascending, disjoint and maximal); an empty list gives no range, a
\* list without neighbours one singleton range per address, and
\* 10,11,12,20,21,30 gives (10,12),(20,21),(30,30).
C5_RangesPartition ==
    /\ ranges(<<10, 11, 12, 20, 21, 30>>) = <<<<10, 12>>, <<20, 21>>, <<30, 30>>>>
    /\ pc = "ranged" =>
          /\ Covered(address_ranges) = Values(addresses)
          /\ \A i \in 1..Len(address_ranges) :
                address_ranges[i][1] <= address_ranges[i][2]
          /\ \A i \in 1..(Len(address_ranges) - 1) :
                address_ranges[i + 1][1] > address_ranges[i][2] + 1
          /\ (addresses = <<>>) => (address_ranges = <<>>)
          /\ (\A i \in 1..(Len(addresses) - 1) :
                  addresses[i + 1] > addresses[i] + 1)
             => address_ranges =
                    [i \in 1..Len(addresses) |-> <<addresses[i], addresses[i]>>]

\* The coalescer has merged neighbours into one range and kept a gap apart.
C5_Witness ==
    /\ pc = "ranged"
    /\ Len(address_ranges) >= 2
    /\ \E i \in 1..Len(address_ranges) :
          address_ranges[i][2] > address_ranges[i][1]

\* Two records of the table with the same zero-based address.
DuplicateAddress ==
    \E i \in 1..Len(table) : \E j \in 1..Len(table) :
        i # j /\ table[i].register - 1 = table[j].register - 1

\* C6: a table in which two records have the same zero-based address never
\* gets past init_device: the poll loop is not started for it.
C6_DuplicateAddressRejected ==
    (main_device # None /\ pc # "start") => ~DuplicateAddress

\* The addresses of all the components the five dicts hold.
RegistryAddresses ==
    DOMAIN sensors \cup DOMAIN binary_sensors \cup DOMAIN enum_sensors
        \cup DOMAIN switches \cup DOMAIN selects

\* C7: after init_device, address_ranges is ascending, its ranges are
\* pairwise disjoint, each holds as many addresses as the registry has
\* entries in it, and together they cover exactly the registry's addresses.
C7_AddressRangesPartition ==
    main_device # None =>
        /\ Covered(address_ranges) = RegistryAddresses
        /\ \A i \in 1..(Len(address_ranges) - 1) :
              address_ranges[i + 1][1] > address_ranges[i][2]
        /\ \A i \in 1..Len(address_ranges) :
              address_ranges[i][2] - address_ranges[i][1] + 1 =
                  Cardinality({k \in 1..Len(addresses) :
                                  /\ addresses[k] >= address_ranges[i][1]
                                  /\ addresses[k] <= address_ranges[i][2]})

\* C8: in one poll cycle the transport gets at most one request per entry
\* of address_ranges and no address is asked for by two requests.
C8_NoAddressReadTwice ==
    /\ Len(tickReads) <= Len(address_ranges)
    /\ \A i \in 1..Len(tickReads) : \A j \in 1..Len(tickReads) :
          i # j => (tickReads[i][1]..tickReads[i][2])
                      \cap (tickReads[j][1]..tickReads[j][2]) = {}

\* The register value a display value stands for in a command to c.
ExpectedValue(c, new_state) ==
    IF table[c].kind = "switch"
    THEN (IF new_state = "ON" THEN 1 ELSE 0)
    ELSE LET o == Options(table[c])
         IN  o.keys[CHOOSE i \in 1..Len(o.keys) : o.values[i] = new_state]

\* C9: a command callback sends at most one write; one that resolved its
\* component and encoded the value has sent exactly one, to the component's
\* address and with the encoded value; and it publishes only after the
\* write was acknowledged, and then the requested display value.
C9_OneWritePerCommand ==
    /\ Len(cmd.writes) <= 1
    /\ (cmd.phase # "idle" /\ cmd.address >= 0 /\ cmd.value >= 0) =>
          cmd.writes = <<[address |-> table[cmd.component].register - 1,
                          value |-> ExpectedValue(cmd.component,
                                                  cmd.new_state)]>>
    /\ (cmd.published # <<>>) =>
          /\ cmd.phase = "returned"
          /\ cmd.result = "ack"
          /\ cmd.published = <<cmd.new_state>>
    /\ (cmd.phase = "returned" /\ cmd.result = "ack") => cmd.published # <<>>

\* A select command was written once, acknowledged and published.
C9_Witness ==
    /\ cmd.phase = "returned"
    /\ cmd.result = "ack"
    /\ table[cmd.component].kind = "select"
    /\ Len(cmd.writes) = 1
    /\ cmd.published = <<cmd.new_state>>
    /\ dev[cmd.address] = cmd.value

\* C10: a select command for a display value that is none of the select's
\* option values returns at once: no write is sent, the device and every
\* component's state stay as they were.
C10_UnknownOptionRejected ==
    [][(/\ cmd.phase = "idle"
        /\ cmd'.phase # "idle"
        /\ table[cmd'.component].kind = "select"
        /\ cmd'.new_state \notin Values(Options(table[cmd'.component]).values))
       => (/\ cmd'.phase = "returned"
           /\ cmd'.writes = <<>>
           /\ cmd'.published = <<>>
           /\ state' = state
           /\ dev' = dev)]_vars

\* A select command for an unknown display value was turned down.
C10_Witness ==
    /\ cmd.phase = "returned"
    /\ cmd.result = "unknown_option"
    /\ cmd.writes = <<>>

\* ------------------------------------------------ the loop and its errors
\* The states in which main is past publish_loop.
Leaving == pc \in {"exiting", "closing", "exited"}

\* C11: a step in which a poll cycle raises (the transport, a decoder or
\* the publisher) ends in the loop's except clause with a sleep of exactly
\* the polling interval, the delay a finished cycle sleeps too; the sleep
\* after an error is left only into a new cycle (or by a cancellation), and
\* main is past the loop only after a cancellation or an error that is
\* not a cycle's (connect, init_device).
C11_CycleErrorContained ==
    [][/\ (/\ pc = "read"
           /\ error' \in {"transport", "codec", "publisher"}
           /\ error' # error)
          => (pc' = "backoff" /\ sleeping' = PollingInterval /\ exit' = "")
       /\ (pc' = "sleep") => (sleeping' = PollingInterval)
       /\ (pc = "backoff" /\ pc' # "backoff")
          => \/ (/\ pc' = "read"
                 /\ blk' = 1
                 /\ tickReads' = <<>>
                 /\ tickPublished' = Empty)
             \/ exit' = "cancelled"
       /\ Leaving'
          => (exit' = "cancelled" \/ error' \in {"connect", "config"})]_vars

\* A new poll cycle has started after one in which a decoder raised.
C11_Witness ==
    /\ pc = "read"
    /\ blk = 1
    /\ tickReads = <<>>
    /\ error = "codec"
    /\ exit = ""

\* C12: with the loop's thread scheduled, a poll cycle that has started
\* comes to its sleep, and every sleep, after a finished cycle or after an
\* error, is followed by the start of a new poll cycle, unless a
\* cancellation ends the loop; so new cycles start for ever, also when
\* every read fails or every cycle raises.
C12_CyclesForever ==
    /\ (pc = "read") ~> (pc \in {"sleep", "backoff"} \/ exit = "cancelled")
    /\ (pc \in {"sleep", "backoff"})
          ~> ((pc = "read" /\ blk = 1 /\ sleeping = 0) \/ exit = "cancelled")

\* A new poll cycle has started after one whose read raised.
C12_Witness ==
    /\ pc = "read"
    /\ blk = 1
    /\ tickReads = <<>>
    /\ error = "transport"
    /\ exit = ""

\* C13: the loop, once entered, is left only by a cancellation, and when
\* main has returned after one, the Modbus transport is closed and the MQTT
\* connection is stopped and disconnected.
C13_ReleasedOnExit ==
    /\ (Leaving /\ modbus_client # None) => exit = "cancelled"
    /\ (pc = "exited" /\ exit = "cancelled")
          => (modbus_client = "closed" /\ mqtt_client = "disconnected")

\* A record whose options list does not hold exactly one key/value table,
\* or whose table's keys and values differ in length or are empty.
Malformed(d) ==
    /\ d.kind \in {"enum_sensor", "select"}
    /\ IF Len(d.options) # 1 THEN TRUE
       ELSE \/ Len(Options(d).keys) # Len(Options(d).values)
            \/ Len(Options(d).keys) = 0

\* C14: a table with a malformed record never gets past init_device: the
\* loop is not entered, no poll cycle raises in a decoder, and main ends
\* with init_device's error.
C14_MalformedFoundAtInit ==
    (\E i \in 1..Len(table) : Malformed(table[i]))
        => /\ pc \in {"start", "exiting", "closing", "exited"}
           /\ error \in {"", "config"}

\* C15: main ends with an error only for a configuration error; a transport
\* error, the failed initial connect included, never ends it.
C15_TransportErrorsSurvived ==
    exit = "error" => error = "config"

\* -------------------------------------------------------------- end to end
\* C16: for a sensor at register 101 (scale 0.5) and a switch at register
\* 50, init_device registers the sensor at address 100 and the switch at
\* address 49 and computes address_ranges [(49,49),(100,100)]; a finished
\* poll cycle whose reads returned 1 for address 49 and 40 for address 100
\* has sent exactly the two single-register reads and has published ON for
\* the switch and 20.0 (200 tenths) for the sensor.
C16_EndToEnd ==
    /\ (pc # "start")
          => /\ sensors = (100 :> 1)
             /\ switches = (49 :> 2)
             /\ addresses = <<49, 100>>
             /\ address_ranges = <<<<49, 49>>, <<100, 100>>>>
    /\ (TickDone /\ tickWords = (49 :> 1) @@ (100 :> 40))
          => /\ tickReads = <<<<49, 49>>, <<100, 100>>>>
             /\ tickPublished = (1 :> <<200>>) @@ (2 :> <<"ON">>)

\* Such a poll cycle has finished.
C16_Witness ==
    /\ TickDone
    /\ tickWords = (49 :> 1) @@ (100 :> 40)
    /\ tickPublished = (1 :> <<200>>) @@ (2 :> <<"ON">>)

\* ------------------------------------------------------------ the codecs
\* The read pass of a tick is over and the five loops are about to run.
ReadPassDone == pc = "read" /\ ~reading /\ blk > Len(address_ranges)

\* C17: in a finished poll cycle a select whose register value is one of
\* its keys has been published with the display value of that key, and a
\* select whose register value is none of its keys has not been published;
\* the select's loop raises for neither.
C17_SelectDecode ==
    \A c \in Registered :
        (table[c].kind = "select")
            => LET o == Options(table[c])
               IN  /\ ReadPassDone => ~CodecRaises(c, blocks)
                   /\ (TickDone /\ At(c) \in DOMAIN registers)
                         => IF SelectKeyMatches(c, registers[At(c)])
                            THEN /\ c \in DOMAIN tickPublished
                                 /\ \E i \in 1..Len(o.keys) :
                                       /\ o.keys[i] = registers[At(c)]
                                       /\ tickPublished[c] = <<o.values[i]>>
                            ELSE /\ c \notin DOMAIN tickPublished
                                 /\ error = ""

\* A poll cycle has finished in which one select was published with the
\* display value of its key and another, whose value is no key, was not.
C17_Witness ==
    /\ TickDone
    /\ \E c \in Registered : \E k \in Registered :
          /\ table[c].kind = "select"
          /\ table[k].kind = "select"
          /\ At(c) \in DOMAIN registers
          /\ At(k) \in DOMAIN registers
          /\ registers[At(c)] = 1
          /\ tickPublished[c] = <<"b">>
          /\ ~SelectKeyMatches(k, registers[At(k)])
          /\ k \notin DOMAIN tickPublished

\* The elements of a list are pairwise distinct.
Distinct(seq) ==
    \A i \in 1..Len(seq) : \A j \in 1..Len(seq) : seq[i] = seq[j] => i = j

\* The select round trip has run for a configured pair.
SelectCoded == pc = "coded" /\ codec.op = "select"

\* C18 as stated: for every option table and every configured pair (key,
\* display value) of it, the command for the display value writes the
\* pair's key and the poll cycle publishes the pair's display value for
\* the key.
C18_SelectRoundTrip ==
    SelectCoded
        => /\ codec.written = codec.options.keys[codec.index]
           /\ codec.published = <<codec.options.values[codec.index]>>

\* C18, amended: the round trip holds for the pairs of an option table
\* whose keys are pairwise distinct and whose display values are pairwise
\* distinct.
C18_SelectRoundTripDistinct ==
    (/\ SelectCoded
     /\ Distinct(codec.options.keys)
     /\ Distinct(codec.options.values))
        => /\ codec.written = codec.options.keys[codec.index]
           /\ codec.published = <<codec.options.values[codec.index]>>

\* The second pair of a table of two distinct pairs has made the round trip.
C18_Witness ==
    /\ SelectCoded
    /\ codec.options = [keys |-> <<1, 0>>, values |-> <<"a", "b">>]
    /\ codec.index = 2
    /\ codec.written = 0
    /\ codec.published = <<"b">>

\* C19: the switch is decoded ON exactly for a non-zero signed register
\* value; a command is encoded as 1 for "ON" and as 0 for every other
\* display value; and decoding what the encoding of a decoded value writes
\* gives the decoded value again, for every signed 16-bit value.
C19_SwitchCodec ==
    /\ (pc = "coded" /\ codec.op = "switch")
          => /\ codec.raw \in -32768..32767
             /\ codec.decoded \in {"ON", "OFF"}
             /\ codec.decoded = "ON" <=> codec.raw # 0
             /\ codec.encoded = (IF codec.raw # 0 THEN 1 ELSE 0)
             /\ codec.redecoded = codec.decoded
    /\ (pc = "coded" /\ codec.op = "switch_command")
          => codec.encoded = (IF codec.display = "ON" THEN 1 ELSE 0)

\* A negative register value has made the switch's round trip as ON.
C19_Witness ==
    /\ pc = "coded"
    /\ codec.op = "switch"
    /\ codec.raw = -32768
    /\ codec.decoded = "ON"
    /\ codec.encoded = 1
    /\ codec.redecoded = "ON"

\* C20: a binary sensor with bit index b in 0..15 is ON exactly when
\* ((raw >> b) & 1) = 1 for the signed register value raw, negative values
\* included; a binary sensor without a bit index is ON exactly when raw is
\* not zero.  With bit 3, raw 11 gives ON and raw 3 gives OFF.
C20_BinaryDecode ==
    (pc = "coded" /\ codec.op = "binary")
        => /\ codec.raw \in -32768..32767
           /\ codec.decoded \in {"ON", "OFF"}
           /\ IF codec.bit >= 0
              THEN codec.decoded = "ON"
                      <=> (codec.raw \div (2 ^ codec.bit)) % 2 = 1
              ELSE codec.decoded = "ON" <=> codec.raw # 0
           /\ (codec.bit = 3 /\ codec.raw = 11) => codec.decoded = "ON"
           /\ (codec.bit = 3 /\ codec.raw = 3) => codec.decoded = "OFF"

\* A negative register value was decoded ON for a bit that its magnitude
\* does not have.
C20_Witness ==
    /\ pc = "coded"
    /\ codec.op = "binary"
    /\ codec.raw = -5
    /\ codec.bit = 1
    /\ codec.decoded = "ON"

\* C21: for every transport word 0..65535, read_holding_registers returns
\* the word itself when it is below 32768 and the word minus 65536
\* otherwise, so that the value lies in -32768..32767.
C21_SignedReinterpretation ==
    (pc = "coded" /\ codec.op = "signed")
        => /\ codec.value = (IF codec.word < 32768 THEN codec.word
                             ELSE codec.word - 65536)
           /\ codec.value \in -32768..32767

\* The word 65535 was returned as -1.
C21_Witness ==
    /\ pc = "coded"
    /\ codec.op = "signed"
    /\ codec.word = 65535
    /\ codec.value = -1

\* ------------------------------------------------------------ the registry
\* C22: the registry is built at most once and never changed afterwards:
\* once main_device is set, no step (a poll cycle's, a sleep's, a command
\* callback's, the exit's, or publish_loop's when it finds the device
\* initialised) changes main_device, the five dicts, the address list or
\* address_ranges.
C22_RegistryImmutable ==
    [][(main_device # None)
          => /\ main_device' = main_device
             /\ sensors' = sensors
             /\ binary_sensors' = binary_sensors
             /\ enum_sensors' = enum_sensors
             /\ switches' = switches
             /\ selects' = selects
             /\ addresses' = addresses
             /\ address_ranges' = address_ranges]_vars

\* A poll cycle has ended in the except clause and a command has been
\* acknowledged, and the select is registered as init_device built it.
C22_Witness ==
    /\ main_device # None
    /\ error = "publisher"
    /\ cmd.phase = "returned"
    /\ cmd.result = "ack"
    /\ selects = BuildMap("select")
    /\ selects # Empty
    /\ address_ranges = ranges(addresses)
    /\ address_ranges # <<>>

\* C23: a poll cycle never publishes, for a switch or a select, a register
\* value that it read before a write to that register was acknowledged:
\* when the five loops run, the word the tick read for a published switch
\* or select is the word the device holds.
C23_NoStaleOverwrite ==
    [][(pc = "read" /\ pc' = "sleep")
          => \A c \in DOMAIN tickPublished' :
                (table[c].kind \in {"switch", "select"})
                    => tickWords[At(c)] = dev[At(c)]]_vars

\* C24: a callback is at its write_register call only with a Modbus client
\* that has been created and connected; no callback ends in an exception
\* for a client that is still None, and no command topic is subscribed
\* while it is None (before get_modbus_client has returned, or after it
\* has failed).
C24_CallbackHasTransport ==
    /\ (cmd.phase = "writing") => modbus_client \in {"connected", "closed"}
    /\ (cmd.phase = "returned" /\ cmd.result = "raised")
          => (cmd.writes # <<>> /\ modbus_client # None)
    /\ (modbus_client = None) => (subscribed = {} /\ cmd.phase = "idle")

\* A callback is at its write_register call and the client is connected.
C24_Witness ==
    /\ cmd.phase = "writing"
    /\ Len(cmd.writes) = 1
    /\ modbus_client = "connected"
    /\ cmd.component \in subscribed

====
